---- MODULE Spec2Model ----
(***************************************************************************)
(* Model of seq2struct/models/pretrained_embeddings.py: the Embedder       *)
(* contract and its three registered variants, GloVe (word vectors),       *)
(* BPEmb (subword vectors) and SentencePiece (trainable segmentation).     *)
(*                                                                         *)
(* Strings are sequences of one-character strings, a token is a string, a  *)
(* token list is a sequence of tokens and an embedding vector a sequence   *)
(* of integers.  Every call leaves a record of itself in `last`.           *)
(***************************************************************************)
EXTENDS Integers, Sequences, FiniteSets, TLC

\* functools.lru_cache(maxsize=1024) on GloVe.tokenize, scaled down so that
\* the model can fill the cache and evict from it.
maxsize == 2
\* The dim argument of BPEmb.__init__ for the modelled instance.
BPDim == 3

GloVes == {"g1", "g2"}
BPEmbs == {"b1"}
SentencePieces == {"s1"}
Embedders == GloVes \cup BPEmbs \cup SentencePieces

Devices == {"cpu", "cuda"}
Texts == {<<>>, <<"A", " ", "b">>}
Tokens == {<<"a">>, <<"z">>}
TokenLists == {<< <<"a">>, <<"b">> >>}

None == "None"
unk_id == 0

VARIABLES
    vectors,             \* self.vectors of GloVe and BPEmb: [device, rows]
    dim,                 \* self.dim of GloVe and BPEmb
    corenlp_client,      \* self._corenlp_client of GloVe: 0 is None, n the n-th client made
    environ,             \* os.environ.get('CORENLP_HOME')
    cache,               \* the lru_cache of GloVe.tokenize, least recently used first
    training_sentences,  \* self.training_sentences of SentencePiece
    spm,                 \* self.spm of SentencePiece
    last,                \* the call made last and what it returned or raised
    clients_created      \* per GloVe: CoreNLPClient constructor calls so far

vars == <<vectors, dim, corenlp_client, environ, cache, training_sentences,
          spm, last, clients_created>>

----------------------------------------------------------------------------
(* The wrapped libraries, by what they do.                                 *)

\* str.lower() on one character.
LowerChar(c) ==
    IF c = "A" THEN "a" ELSE IF c = "B" THEN "b" ELSE c

RECURSIVE Lower(_)
Lower(s) ==
    IF s = <<>> THEN <<>> ELSE <<LowerChar(Head(s))>> \o Lower(Tail(s))

\* The words of a text: maximal runs without a blank.
RECURSIVE SplitWords(_, _)
SplitWords(text, cur) ==
    IF text = <<>>
    THEN IF cur = <<>> THEN <<>> ELSE <<cur>>
    ELSE IF Head(text) = " "
         THEN (IF cur = <<>> THEN <<>> ELSE <<cur>>) \o SplitWords(Tail(text), <<>>)
         ELSE SplitWords(Tail(text), Append(cur, Head(text)))

\* corenlp client.annotate(text) with annotators "tokenize ssplit": the
\* words of the sentences of the text, in order.
annotate(text) ==
    SplitWords(text, <<>>)

RECURSIVE LowerAll(_)
LowerAll(words) ==
    IF words = <<>> THEN <<>> ELSE <<Lower(Head(words))>> \o LowerAll(Tail(words))

\* ' '.join(tokens)
RECURSIVE Join(_)
Join(tokens) ==
    IF tokens = <<>> THEN <<>>
    ELSE IF Len(tokens) = 1 THEN Head(tokens)
    ELSE Head(tokens) \o <<" ">> \o Join(Tail(tokens))

\* torchtext.vocab.GloVe: stoi and the vector table it loads.
glove_stoi ==
    (<<"a">> :> 1) @@ (<<"b">> :> 2)

glove_vectors ==
    << <<11, 12>>, <<21, 22>> >>

\* bpemb.BPEmb(lang, dim, vs): the piece-to-id mapping of its sentencepiece
\* model (unknown pieces map to unk_id) and its vector table of width dim.
PieceToId(piece) ==
    IF piece = <<"a">> THEN 1
    ELSE IF piece = <<"_", "a">> THEN 2
    ELSE IF piece = <<"_", "b">> THEN 3
    ELSE unk_id

bpemb_vectors(d) ==
    [i \in 0..3 |-> [j \in 1..d |-> 10 * i + j]]

RECURSIVE MarkWords(_)
MarkWords(words) ==
    IF words = <<>> THEN <<>>
    ELSE << <<"_">> \o Lower(Head(words)) >> \o MarkWords(Tail(words))

\* bpemb encode: lower-cased words, each a piece marked with the word-start mark.
bpemb_encode(text) ==
    MarkWords(SplitWords(text, <<>>))

RECURSIVE Unmark(_)
Unmark(pieces) ==
    IF pieces = <<>> THEN <<>>
    ELSE LET p == Head(pieces)
             w == IF p # <<>> /\ Head(p) = "_" THEN <<" ">> \o Tail(p) ELSE p
         IN  w \o Unmark(Tail(pieces))

\* bpemb decode: pieces concatenated, word-start marks turned into blanks,
\* the leading blank dropped.
bpemb_decode(pieces) ==
    LET s == Unmark(pieces)
    IN  IF s # <<>> /\ Head(s) = " " THEN Tail(s) ELSE s

----------------------------------------------------------------------------
(* Results of a call.                                                      *)

Result(kind, dev, val, ref) ==
    [kind |-> kind, dev |-> dev, val |-> val, ref |-> ref]

Returned(val) == Result("value", "", val, <<>>)
ReturnedNone == Result(None, "", <<>>, <<>>)
ReturnedVector(v) == Result("vector", v.device, v.row, <<>>)
ReturnedObject(ref, val) == Result("value", "", val, ref)
Raised == Result("AttributeError", "", <<>>, <<>>)

Call(op, self, arg, res, hit) ==
    [op |-> op, self |-> self, arg |-> arg, res |-> res, hit |-> hit]

\* The attributes __init__ assigns.
Attributes(self) ==
    IF self \in GloVes THEN {"glove", "_corenlp_client", "dim", "vectors"}
    ELSE IF self \in BPEmbs THEN {"bpemb", "dim", "vectors"}
    ELSE {"training_sentences", "spm"}

----------------------------------------------------------------------------
Init ==
    /\ vectors = [e \in GloVes \cup BPEmbs |->
                    IF e \in GloVes
                    THEN [device |-> "cpu", rows |-> glove_vectors]
                    ELSE [device |-> "cpu", rows |-> bpemb_vectors(BPDim)]]
    /\ dim = [e \in GloVes \cup BPEmbs |->
                    IF e \in GloVes THEN Len(glove_vectors[1]) ELSE BPDim]
    /\ corenlp_client = [g \in GloVes |-> 0]
    /\ environ = None
    /\ cache = <<>>
    /\ training_sentences = [s \in SentencePieces |-> <<>>]
    /\ spm = [s \in SentencePieces |-> None]
    /\ last = Call("__init__", "", <<>>, ReturnedNone, FALSE)
    /\ clients_created = [g \in GloVes |-> 0]

----------------------------------------------------------------------------
(* GloVe                                                                   *)

\* The corenlp_client property: check-then-create, then the client.
GloVe_corenlp_client_always(self) ==
    /\ environ' = "third_party/stanford-corenlp-full-2018-10-05"
    /\ clients_created' = [clients_created EXCEPT ![self] = @ + 1]
    /\ corenlp_client' = [corenlp_client EXCEPT ![self] = clients_created[self] + 1]

GloVe_corenlp_client(self) ==
    IF corenlp_client[self] = 0
    THEN /\ environ' = "third_party/stanford-corenlp-full-2018-10-05"
         /\ clients_created' = [clients_created EXCEPT ![self] = @ + 1]
         /\ corenlp_client' = [corenlp_client EXCEPT ![self] = clients_created[self] + 1]
    ELSE UNCHANGED <<environ, clients_created, corenlp_client>>

\* The key lru_cache makes of the call's arguments, self included.
make_key_self_only(self, text) ==
    <<self, <<>>>>

make_key(self, text) ==
    <<self, text>>

\* The list object a run of tokenize's body returns.  The embedder reaches
\* a list only through the cache entry of the call that made it, one list
\* per entry, so the call names the list; a copy of it is another object.
NewList(self, text) ==
    <<"list", self, text>>

CopyOf(ref) ==
    <<"copy">> \o Tail(ref)

\* Position of the key's entry in the cache, 0 when it has none.
CacheIndex(key) ==
    IF \E i \in 1..Len(cache) : cache[i].key = key
    THEN CHOOSE i \in 1..Len(cache) : cache[i].key = key
    ELSE 0

Without(seq, i) ==
    SubSeq(seq, 1, i - 1) \o SubSeq(seq, i + 1, Len(seq))

\* lru_cache wrapper, key found: the entry becomes the most recently used
\* one and its stored result is returned, the wrapped function not called.
lru_hit_copy(self, text, i) ==
    /\ cache' = Append(Without(cache, i), cache[i])
    /\ last' = Call("tokenize", self, text,
                    ReturnedObject(CopyOf(cache[i].ref), cache[i].obj), TRUE)
    /\ UNCHANGED <<vectors, dim, corenlp_client, environ, training_sentences,
                   spm, clients_created>>

lru_hit(self, text, i) ==
    /\ cache' = Append(Without(cache, i), cache[i])
    /\ last' = Call("tokenize", self, text,
                    ReturnedObject(cache[i].ref, cache[i].obj), TRUE)
    /\ UNCHANGED <<vectors, dim, corenlp_client, environ, training_sentences,
                   spm, clients_created>>

\* lru_cache wrapper, key not found: the body of tokenize runs (the client
\* is fetched and annotates, the words are lower-cased into a new list), the
\* result is stored under the key, in place of the least recently used
\* entry when the cache is full, and returned.
lru_miss(self, text) ==
    /\ GloVe_corenlp_client(self)
    /\ LET result == LowerAll(annotate(text))
           entry == [key |-> make_key(self, text), ref |-> NewList(self, text),
                     obj |-> result]
       IN  /\ cache' = IF Len(cache) >= maxsize
                       THEN Append(Tail(cache), entry)
                       ELSE Append(cache, entry)
           /\ last' = Call("tokenize", self, text,
                           ReturnedObject(NewList(self, text), result), FALSE)
    /\ UNCHANGED <<vectors, dim, training_sentences, spm>>

GloVe_tokenize(self, text) ==
    LET i == CacheIndex(make_key(self, text))
    IN  IF i # 0 THEN lru_hit(self, text, i) ELSE lru_miss(self, text)

GloVe_untokenize(self, tokens) ==
    Returned(Join(tokens))

GloVe_lookup(self, token) ==
    IF token \notin DOMAIN glove_stoi
    THEN ReturnedNone
    ELSE ReturnedVector([device |-> vectors[self].device,
                         row |-> vectors[self].rows[glove_stoi[token]]])

GloVe_contains(self, token) ==
    Returned(<<token \in DOMAIN glove_stoi>>)

GloVe_to_unassigned(self, device) ==
    /\ vectors' = vectors
    /\ last' = Call("to", self, <<device>>, ReturnedNone, FALSE)
    /\ UNCHANGED <<dim, corenlp_client, environ, cache, training_sentences,
                   spm, clients_created>>

GloVe_to(self, device) ==
    /\ vectors' = [vectors EXCEPT ![self].device = device]
    /\ last' = Call("to", self, <<device>>, ReturnedNone, FALSE)
    /\ UNCHANGED <<dim, corenlp_client, environ, cache, training_sentences,
                   spm, clients_created>>

GloVe_requires_training(self) ==
    FALSE

----------------------------------------------------------------------------
(* BPEmb                                                                   *)

BPEmb_tokenize(self, text) ==
    Returned(bpemb_encode(text))

BPEmb_untokenize(self, tokens) ==
    Returned(bpemb_decode(tokens))

BPEmb_lookup(self, token) ==
    LET i == PieceToId(token)
    IN  IF i = unk_id
        THEN ReturnedNone
        ELSE ReturnedVector([device |-> vectors[self].device,
                             row |-> vectors[self].rows[i]])

BPEmb_contains(self, token) ==
    Returned(<<BPEmb_lookup(self, token).kind # None>>)

BPEmb_to(self, device) ==
    /\ vectors' = [vectors EXCEPT ![self].device = device]
    /\ last' = Call("to", self, <<device>>, ReturnedNone, FALSE)
    /\ UNCHANGED <<dim, corenlp_client, environ, cache, training_sentences,
                   spm, clients_created>>

BPEmb_requires_training(self) ==
    FALSE

----------------------------------------------------------------------------
(* SentencePiece: __init__ assigns training_sentences and spm only, so a   *)
(* read of self.bpemb or self.vectors, or a method call on the None in     *)
(* self.spm, raises AttributeError.                                        *)

SentencePiece_tokenize(self, text) ==
    IF spm[self] = None THEN Raised ELSE Returned(bpemb_encode(text))

SentencePiece_untokenize(self, tokens) ==
    IF "bpemb" \notin Attributes(self) THEN Raised
    ELSE Returned(bpemb_decode(tokens))

SentencePiece_lookup(self, token) ==
    IF "bpemb" \notin Attributes(self) THEN Raised
    ELSE LET i == PieceToId(token)
         IN  IF i = unk_id THEN ReturnedNone
             ELSE IF "vectors" \notin Attributes(self) THEN Raised
             ELSE ReturnedVector([device |-> vectors[self].device,
                                  row |-> vectors[self].rows[i]])

SentencePiece_contains(self, token) ==
    LET r == SentencePiece_lookup(self, token)
    IN  IF r.kind = "AttributeError" THEN Raised ELSE Returned(<<r.kind # None>>)

SentencePiece_to(self, device) ==
    /\ last' = Call("to", self, <<device>>,
                    IF "vectors" \notin Attributes(self) THEN Raised ELSE ReturnedNone,
                    FALSE)
    /\ vectors' = IF "vectors" \notin Attributes(self) THEN vectors
                  ELSE [vectors EXCEPT ![self].device = device]
    /\ UNCHANGED <<dim, corenlp_client, environ, cache, training_sentences,
                   spm, clients_created>>

SentencePiece_requires_training(self) ==
    FALSE

----------------------------------------------------------------------------
(* Embedder: the two methods no variant overrides.                         *)

add_sentence_accumulating(self, sentence) ==
    /\ last' = Call("add_sentence", self, sentence, ReturnedNone, FALSE)
    /\ training_sentences' =
           IF self \in SentencePieces
           THEN [training_sentences EXCEPT ![self] = Append(@, sentence)]
           ELSE training_sentences
    /\ UNCHANGED <<vectors, dim, corenlp_client, environ, cache, spm,
                   clients_created>>

add_sentence(self, sentence) ==
    /\ last' = Call("add_sentence", self, sentence, ReturnedNone, FALSE)
    /\ UNCHANGED <<vectors, dim, corenlp_client, environ, cache,
                   training_sentences, spm, clients_created>>

finalize(self) ==
    /\ last' = Call("finalize", self, <<>>, ReturnedNone, FALSE)
    /\ UNCHANGED <<vectors, dim, corenlp_client, environ, cache,
                   training_sentences, spm, clients_created>>

----------------------------------------------------------------------------
(* The calls a user of the module makes, dispatched on the variant.        *)

lookup(self, token) ==
    IF self \in GloVes THEN GloVe_lookup(self, token)
    ELSE IF self \in BPEmbs THEN BPEmb_lookup(self, token)
    ELSE SentencePiece_lookup(self, token)

contains(self, token) ==
    IF self \in GloVes THEN GloVe_contains(self, token)
    ELSE IF self \in BPEmbs THEN BPEmb_contains(self, token)
    ELSE SentencePiece_contains(self, token)

untokenize(self, tokens) ==
    IF self \in GloVes THEN GloVe_untokenize(self, tokens)
    ELSE IF self \in BPEmbs THEN BPEmb_untokenize(self, tokens)
    ELSE SentencePiece_untokenize(self, tokens)

requires_training(self) ==
    IF self \in GloVes THEN GloVe_requires_training(self)
    ELSE IF self \in BPEmbs THEN BPEmb_requires_training(self)
    ELSE SentencePiece_requires_training(self)

ReadOnly ==
    UNCHANGED <<vectors, dim, corenlp_client, environ, cache,
                training_sentences, spm, clients_created>>

Tokenize(self, text) ==
    IF self \in GloVes THEN GloVe_tokenize(self, text)
    ELSE /\ last' = Call("tokenize", self, text,
                         IF self \in BPEmbs THEN BPEmb_tokenize(self, text)
                         ELSE SentencePiece_tokenize(self, text), FALSE)
         /\ ReadOnly

Untokenize(self, tokens) ==
    /\ last' = Call("untokenize", self, tokens, untokenize(self, tokens), FALSE)
    /\ ReadOnly

Lookup(self, token) ==
    /\ last' = Call("lookup", self, token, lookup(self, token), FALSE)
    /\ ReadOnly

Contains(self, token) ==
    /\ last' = Call("contains", self, token, contains(self, token), FALSE)
    /\ ReadOnly

To(self, device) ==
    IF self \in GloVes THEN GloVe_to(self, device)
    ELSE IF self \in BPEmbs THEN BPEmb_to(self, device)
    ELSE SentencePiece_to(self, device)

RequiresTraining(self) ==
    /\ last' = Call("requires_training", self, <<>>,
                    Returned(<<requires_training(self)>>), FALSE)
    /\ ReadOnly

AddSentence(self, sentence) ==
    add_sentence(self, sentence)

Finalize(self) ==
    finalize(self)

\* The caller changes in place a token list GloVe.tokenize handed it
\* (tokens[:] = ['x']); every list in the cache was handed out by the call
\* that made it.
CallerAssign(i) ==
    /\ i \in 1..Len(cache)
    /\ cache' = [cache EXCEPT ![i].obj = << <<"x">> >>]
    /\ last' = Call("list.__setitem__", "", cache[i].ref, ReturnedNone, FALSE)
    /\ UNCHANGED <<vectors, dim, corenlp_client, environ, training_sentences,
                   spm, clients_created>>

Next ==
    \/ \E self \in Embedders, text \in Texts : Tokenize(self, text)
    \/ \E self \in Embedders, tokens \in TokenLists : Untokenize(self, tokens)
    \/ \E self \in Embedders, token \in Tokens : Lookup(self, token)
    \/ \E self \in Embedders, token \in Tokens : Contains(self, token)
    \/ \E self \in Embedders, device \in Devices : To(self, device)
    \/ \E self \in Embedders : RequiresTraining(self)
    \/ \E self \in Embedders, text \in Texts : AddSentence(self, text)
    \/ \E self \in Embedders : Finalize(self)

\* The embedders driven through their contract.
Spec == Init /\ [][Next]_vars

NextAlias ==
    \/ Next
    \/ \E i \in 1..maxsize : CallerAssign(i)

\* The same, with a caller that also changes the token lists it was handed.
SpecAlias == Init /\ [][NextAlias]_vars

----------------------------------------------------------------------------
(* What the calls did, read off the record of the last call.               *)

CachedKeys ==
    {cache[i].key : i \in 1..Len(cache)}

EntriesOf(g) ==
    {i \in 1..Len(cache) : cache[i].key[1] = g}

\* The call was GloVe.tokenize.
GloVeTokenize(call) ==
    call.op = "tokenize" /\ call.self \in GloVes

\* The call ran the body of GloVe.tokenize, which invokes client.annotate.
AnnotateInvoked(call) ==
    GloVeTokenize(call) /\ ~call.hit

----------------------------------------------------------------------------
(* C1: for every variant and token t, contains(t) is true if and only if   *)
(* lookup(t) is not None: after any lookup or contains call, contains on   *)
(* that embedder and token returns a boolean, lookup returns a vector or   *)
(* None, and the boolean is true exactly when lookup returns a vector.     *)
C1_ContainsIffLookup ==
    last.op \in {"lookup", "contains"} =>
        LET c == contains(last.self, last.arg)
            l == lookup(last.self, last.arg)
        IN  /\ c.kind = "value"
            /\ l.kind \in {"vector", None}
            /\ c.val = <<l.kind # None>>

(* C2: lookup returns a vector whose length is the instance's dim, or      *)
(* None; it never raises and never returns a vector of another width.      *)
C2_LookupVectorOrNone ==
    last.op = "lookup" =>
        \/ last.res.kind = None
        \/ /\ last.res.kind = "vector"
           /\ Len(last.res.val) = dim[last.self]

(* C3: on a GloVe, every tokenize call with a string returns the same      *)
(* value, the lower-cased words of that string, whether it is served from  *)
(* the cache or computed and whatever was called in between; and a         *)
(* tokenize call for a string whose entry is in the cache does not invoke  *)
(* the annotation client.                                                  *)
C3_TokenizeMemoized ==
    /\ [](GloVeTokenize(last) =>
            /\ last.res.kind = "value"
            /\ last.res.val = LowerAll(annotate(last.arg)))
    /\ [][\A g \in GloVes, t \in Texts :
            (/\ last'.op = "tokenize" /\ last'.self = g /\ last'.arg = t
             /\ make_key(g, t) \in CachedKeys)
            => ~AnnotateInvoked(last')]_vars

C3_Witness ==
    /\ GloVeTokenize(last)
    /\ last.hit
    /\ last.res.val = << <<"a">>, <<"b">> >>
    /\ Len(cache) = maxsize

(* C4: the tokenization cache belongs to the instance: an instance never   *)
(* holds more than maxsize entries, and an entry of an instance leaves the *)
(* cache only when that same instance tokenizes a string that misses while *)
(* it holds maxsize entries of its own, the entry being its least recently *)
(* used one; tokenize calls on another instance never evict it.            *)
C4_CachePerInstance ==
    /\ [](\A g \in GloVes : Cardinality(EntriesOf(g)) <= maxsize)
    /\ [][\A g \in GloVes, t \in Texts :
            (make_key(g, t) \in CachedKeys /\ make_key(g, t) \notin CachedKeys')
            => /\ AnnotateInvoked(last')
               /\ last'.self = g
               /\ Cardinality(EntriesOf(g)) = maxsize
               /\ \A i \in EntriesOf(g) :
                     cache[i].key = make_key(g, t) => \A j \in EntriesOf(g) : i <= j]_vars

(* C5: a GloVe has no annotation client after construction; the client is  *)
(* created, and CORENLP_HOME set, by a tokenize call that misses the       *)
(* cache; at most one client is ever created per instance and it stays     *)
(* the instance's client; no other call creates or replaces it.            *)
C5_LazySingleClient ==
    /\ \A g \in GloVes : corenlp_client[g] = 0
    /\ environ = None
    /\ [](/\ \A g \in GloVes :
               /\ clients_created[g] <= 1
               /\ corenlp_client[g] = clients_created[g]
          /\ (environ = None) <=> (\A g \in GloVes : corenlp_client[g] = 0)
          /\ AnnotateInvoked(last) => corenlp_client[last.self] # 0)
    /\ [][\A g \in GloVes :
            corenlp_client'[g] # corenlp_client[g]
            => /\ corenlp_client[g] = 0
               /\ AnnotateInvoked(last')
               /\ last'.self = g
               /\ environ' # None]_vars

C5_Witness ==
    /\ \A g \in GloVes : corenlp_client[g] = 1
    /\ GloVeTokenize(last)
    /\ ~last.hit
    /\ Len(cache) = maxsize

(* C6: on every variant whose requires_training is false, tokenize, lookup *)
(* and contains complete without raising, with no add_sentence or finalize *)
(* call needed first.                                                      *)
C6_NoRaiseWithoutTraining ==
    (/\ last.op \in {"tokenize", "lookup", "contains"}
     /\ ~requires_training(last.self))
    => last.res.kind # "AttributeError"

(* C7: to(device) changes only the device of the instance's vector table:  *)
(* every token lookup found before is found after with the same vector on  *)
(* the given device, and contains, dim, the tokenization cache, the        *)
(* annotation clients and the other instances' lookups are as before; a    *)
(* call other than to changes no result of lookup or contains.             *)
C7_ToMovesOnlyTheTable ==
    [][\A e \in Embedders :
         /\ (last'.op = "to" /\ last'.self = e)
            => /\ \A t \in Tokens :
                    /\ lookup(e, t).kind = "vector"
                       => lookup(e, t)' = [lookup(e, t) EXCEPT !.dev = last'.arg[1]]
                    /\ lookup(e, t).kind # "vector"
                       => lookup(e, t)' = lookup(e, t)
               /\ \A o \in Embedders \ {e}, t \in Tokens :
                    lookup(o, t)' = lookup(o, t)
               /\ \A o \in Embedders, t \in Tokens :
                    contains(o, t)' = contains(o, t)
               /\ dim' = dim
               /\ cache' = cache
               /\ corenlp_client' = corenlp_client
         /\ last'.op # "to"
            => \A t \in Tokens :
                  /\ lookup(e, t)' = lookup(e, t)
                  /\ contains(e, t)' = contains(e, t)]_vars

C7_Witness ==
    /\ last.op = "to"
    /\ last.self \in GloVes
    /\ last.arg = <<"cuda">>
    /\ lookup(last.self, <<"a">>).dev = "cuda"
    /\ corenlp_client[last.self] # 0
    /\ Len(cache) = maxsize

(* C8: on every variant, tokenize of the empty string returns an empty     *)
(* sequence and does not fail.                                             *)
C8_TokenizeEmpty ==
    (last.op = "tokenize" /\ last.arg = <<>>)
    => (last.res.kind = "value" /\ last.res.val = <<>>)

(* C9: on a SentencePiece, add_sentence and finalize change no state: the  *)
(* accumulated-sentence list is empty and the fitted model unset after any *)
(* calls, as after construction.                                           *)
C9_TrainingCallsAreNoOps ==
    \A s \in SentencePieces :
        /\ training_sentences[s] = <<>>
        /\ spm[s] = None

C9_Witness ==
    /\ last.op = "add_sentence"
    /\ last.self \in SentencePieces
    /\ last.arg # <<>>

(* C10: GloVe.tokenize returns the list object its cache entry holds: the  *)
(* list a miss stores stays the entry's list while the entry stays, its    *)
(* content changes only when the caller changes it in place, and a call    *)
(* served from the cache returns that object with the content it then has, *)
(* the caller's change included.                                           *)
C10_CachedListIsShared ==
    /\ [](/\ GloVeTokenize(last)
             => LET i == CacheIndex(make_key(last.self, last.arg))
                IN  /\ i # 0
                    /\ last.res.ref = cache[i].ref
                    /\ last.res.val = cache[i].obj
          /\ last.op = "list.__setitem__"
             => \E i \in 1..Len(cache) :
                   cache[i].ref = last.arg /\ cache[i].obj = << <<"x">> >>)
    /\ [][\A i \in 1..Len(cache), j \in 1..Len(cache') :
            cache[i].key = cache'[j].key
            => /\ cache'[j].ref = cache[i].ref
               /\ cache'[j].obj # cache[i].obj
                  => (last'.op = "list.__setitem__" /\ last'.arg = cache[i].ref)]_vars

C10_Witness ==
    /\ GloVeTokenize(last)
    /\ last.hit
    /\ last.arg = <<"A", " ", "b">>
    /\ last.res.val = << <<"x">> >>

====
